---- MODULE Spec2Model ----
(***************************************************************************)
(* Model of the move-selection pipeline of the chess engine:               *)
(* movegeneration.py (next_move, minimax_root, minimax, quiescence_search, *)
(* get_ordered_moves), transposition_table.py, opening_book.py,            *)
(* game_learner.py and the parts of evaluate.py the search uses.           *)
(*                                                                         *)
(* The rules engine (python-chess) is external to the repository.  It is   *)
(* represented by the variable game: a finite game graph giving, for each  *)
(* position, the side to move, the legal moves in enumeration order, the   *)
(* terminal status, the claimable-draw flag and the static evaluation.     *)
(* A board is a position together with the move stack push/pop maintain.   *)
(***************************************************************************)
EXTENDS Integers, Sequences, FiniteSets, TLC

VARIABLES game,        \* the rules engine's view of the game (fixed after Init)
          search_depth, \* the depth this caller passes to next_move
          board,       \* the caller's chess.Board
          tt,          \* movegeneration.tt, the shared TranspositionTable
          book,        \* movegeneration.book, the OpeningBook
          learner,     \* movegeneration.learner, GameLearner.positions
          debug_info,  \* movegeneration.debug_info, the telemetry dict
          ret          \* what the last operation was called with and returned

vars == <<game, search_depth, board, tt, book, learner, debug_info, ret>>

----------------------------------------------------------------------------
(* Bounds of the model *)

\* deepest search depth a caller passes
MaxDepth == 4
\* deepest budget a caller gives quiescence_search
MaxQDepth == 2
\* largest capacity (max_entries) a transposition table is built with
MaxEntries == 2
\* most counted table events (hits, misses, evictions, new searches) in a run
MaxTTOps == 3
\* longest move list handed to the move ordering
MaxMoves == 3
\* the most queens, and the most minor pieces, a side has on the boards
\* check_end_game is run on
MaxQueens == 2
\* the most entries the opening book holds for a position
MaxBookEntries == 2
\* the most games the GUI's PGN directory comes to hold
MaxSaves == 1
\* the most moves the engine is followed through in the GUI
MaxAiMoves == 2
MaxMinors == 2

----------------------------------------------------------------------------
(* Program constants *)

MATE_SCORE == 1000000000
MATE_THRESHOLD == 999000000
\* float("inf"): any integer above every score the program computes
Inf == 2000000000
\* min_weight default of get_book_move
MIN_WEIGHT == 10
\* TranspositionTable(64): (64 * 1024 * 1024) // 32 entries
TT_MAX_ENTRIES == 2097152
\* the default budget of quiescence_search (depth: int = 4)
QUIESCENCE_DEPTH == 4
\* batch_analysis.play_game: max_moves, and the mercy-rule margin
MAX_MOVES == 150
MERCY_MARGIN == 1500
\* chess_gui.make_ai_move: the depth it searches to
GUI_DEPTH == 3

None == "None"
WHITE == TRUE
BLACK == FALSE

EXACT == "EXACT"
ALPHA == "ALPHA"
BETA == "BETA"
NodeType == {EXACT, ALPHA, BETA}

Max(a, b) == IF a >= b THEN a ELSE b
Min(a, b) == IF a <= b THEN a ELSE b

----------------------------------------------------------------------------
(* The rules engine: chess.Board as the search uses it *)

\* board.turn
turn(b) == game.turn[b.pos]
\* list(board.legal_moves), in the engine's enumeration order
legal_moves(b) == game.moves[b.pos]
is_checkmate(b) == game.status[b.pos] = "checkmate"
is_game_over(b) == game.status[b.pos] # "play"
can_claim_draw(b) == game.claim[b.pos]
is_capture(b, m) == m.capture
\* chess.polyglot.zobrist_hash(board): the position without its history
zobrist_hash(b) == b.pos

\* board.push(move)
push(b, m) ==
    [pos |-> m.to, stack |-> Append(b.stack, [move |-> m.id, prev |-> b.pos])]

\* board.pop()
pop(b) ==
    [pos |-> b.stack[Len(b.stack)].prev,
     stack |-> SubSeq(b.stack, 1, Len(b.stack) - 1)]

\* evaluate_board(board): the static evaluation, positive for White
evaluate_board(b) == game.eval[b.pos]

SeqToSet(s) == {s[i] : i \in 1..Len(s)}
LegalIds(b) == {m.id : m \in SeqToSet(legal_moves(b))}

----------------------------------------------------------------------------
(* transposition_table.py *)

\* TranspositionTable.__init__
NewTable(max_entries) ==
    [table |-> <<>>, hits |-> 0, misses |-> 0, collisions |-> 0,
     current_age |-> 0, max_entries |-> max_entries]

\* position of key in the dict (insertion order), 0 when absent
RECURSIVE IndexOfKey(_, _, _)
IndexOfKey(table, key, i) ==
    IF i > Len(table) THEN 0
    ELSE IF table[i].key = key THEN i
    ELSE IndexOfKey(table, key, i + 1)

\* an eviction that always takes the first entry in dict order
FirstIndex(table, i, best) == 1

\* min(self.table.keys(), key=age): the first entry, in dict order, of least age
RECURSIVE OldestIndex(_, _, _)
OldestIndex(table, i, best) ==
    IF i > Len(table) THEN best
    ELSE IF table[i].age < table[best].age THEN OldestIndex(table, i + 1, i)
    ELSE OldestIndex(table, i + 1, best)

RemoveAt(s, i) == SubSeq(s, 1, i - 1) \o SubSeq(s, i + 1, Len(s))

\* a store that never makes room
NoEvict(t) == t

\* the eviction step of store: lines 55-60
Evict(t) ==
    IF Len(t.table) >= t.max_entries
    THEN [t EXCEPT !.table = RemoveAt(t.table, OldestIndex(t.table, 1, 1)),
                   !.collisions = t.collisions + 1]
    ELSE t

\* a store that keeps the entry a position already has
KeepFirstEntry(table, e) ==
    IF IndexOfKey(table, e.key, 1) = 0 THEN Append(table, e) ELSE table

\* self.table[key] = TableEntry(...): replace in place, or insert last
PutEntry(table, e) ==
    LET i == IndexOfKey(table, e.key, 1)
    IN  IF i = 0 THEN Append(table, e) ELSE [table EXCEPT ![i] = e]

\* TranspositionTable.store
store(t, b, depth, score, node_type, best_move) ==
    LET t1 == Evict(t)
        e == [key |-> zobrist_hash(b), depth |-> depth, score |-> score,
              node_type |-> node_type, best_move |-> best_move,
              age |-> t.current_age]
    IN  [t1 EXCEPT !.table = PutEntry(t1.table, e)]

\* a lookup that counts the hit or miss but leaves the entry's age alone
LookupNoRefresh(t, b) ==
    LET i == IndexOfKey(t.table, zobrist_hash(b), 1)
    IN  IF i # 0
        THEN [found |-> TRUE, entry |-> t.table[i],
              tt |-> [t EXCEPT !.hits = t.hits + 1]]
        ELSE [found |-> FALSE, entry |-> None,
              tt |-> [t EXCEPT !.misses = t.misses + 1]]

\* TranspositionTable.lookup: the entry (or None) and the table afterwards
lookup(t, b) ==
    LET i == IndexOfKey(t.table, zobrist_hash(b), 1)
    IN  IF i # 0
        THEN [found |-> TRUE,
              entry |-> [t.table[i] EXCEPT !.age = t.current_age],
              tt |-> [t EXCEPT !.hits = t.hits + 1,
                               !.table[i].age = t.current_age]]
        ELSE [found |-> FALSE, entry |-> None,
              tt |-> [t EXCEPT !.misses = t.misses + 1]]

\* TranspositionTable.new_search
new_search(t) == [t EXCEPT !.current_age = t.current_age + 1]

\* TranspositionTable.clear
clear(t) == [t EXCEPT !.table = <<>>, !.hits = 0, !.misses = 0, !.collisions = 0]

----------------------------------------------------------------------------
(* evaluate.py: move ordering *)

\* move_value with a promotion valued +inf for both colours
PromotionAlwaysHigh(b, m) ==
    IF m.promotion
    THEN Inf
    ELSE LET capture_value == IF is_capture(b, m) THEN m.capture_value ELSE 0
             current_move_value == capture_value + m.position_change
         IN  IF turn(b) = BLACK THEN -current_move_value ELSE current_move_value

\* move_value(board, move, endgame)
move_value(b, m) ==
    IF m.promotion
    THEN (IF turn(b) = BLACK THEN -Inf ELSE Inf)
    ELSE LET capture_value == IF is_capture(b, m) THEN m.capture_value ELSE 0
             current_move_value == capture_value + m.position_change
         IN  IF turn(b) = BLACK THEN -current_move_value ELSE current_move_value

\* sorted(): insert x after the last element that does not sort after it (stable)
RECURSIVE InsertSorted(_, _, _, _)
InsertSorted(b, sorted, x, reverse) ==
    IF sorted = <<>> THEN <<x>>
    ELSE LET last == sorted[Len(sorted)]
             before == IF reverse THEN move_value(b, x) > move_value(b, last)
                                  ELSE move_value(b, x) < move_value(b, last)
         IN  IF before
             THEN Append(InsertSorted(b, SubSeq(sorted, 1, Len(sorted) - 1), x, reverse),
                         last)
             ELSE Append(sorted, x)

RECURSIVE SortMoves(_, _, _, _)
SortMoves(b, moves, n, reverse) ==
    IF n = 0 THEN <<>>
    ELSE InsertSorted(b, SortMoves(b, moves, n - 1, reverse), moves[n], reverse)

\* get_ordered_moves(board)
get_ordered_moves(b) ==
    SortMoves(b, legal_moves(b), Len(legal_moves(b)), turn(b) = WHITE)

----------------------------------------------------------------------------
(* movegeneration.py: the recursive search *)

\* The state the search reads and writes while it runs: the board it mutates
\* in place, the shared table, debug_info["nodes"], and (for observation only)
\* the record of every minimax call that has returned, in order of return.
SearchState(b, t, nodes) == [board |-> b, tt |-> t, nodes |-> nodes, calls |-> <<>>]

\* the bound type of the i-th entry of a table, None when i is 0 (no entry)
TagAt(table, i) == IF i = 0 THEN None ELSE table[i].node_type

\* one returned minimax call, as observed: its arguments (the board as it was
\* on entry), the value returned, the return path taken, and the board on return
\* (stored is the bound type of the entry the call wrote by line 174 or 232,
\* read back from the table it returns with; None when it wrote none)
CallRecord(st, b0, depth, alpha, beta, is_max, score, how) ==
    [pos |-> b0.pos, board_in |-> b0, board_out |-> st.board,
     depth |-> depth, alpha |-> alpha, beta |-> beta,
     is_max |-> is_max, score |-> score, how |-> how,
     stored |-> IF how \in {"leaf", "searched", "cutoff"}
                THEN TagAt(st.tt.table, IndexOfKey(st.tt.table, zobrist_hash(b0), 1))
                ELSE None]

Return(st, b0, depth, alpha, beta, is_max, score, how) ==
    [score |-> score,
     st |-> [st EXCEPT !.calls =
                 Append(@, CallRecord(st, b0, depth, alpha, beta, is_max, score, how))]]

\* a table cut that hands back the window bound without comparing the stored
\* score with it
TTCutUnchecked(e, depth, alpha, beta) ==
    IF ~(e.found /\ e.depth >= depth) THEN [hit |-> FALSE]
    ELSE IF e.node_type = EXACT THEN [hit |-> TRUE, score |-> e.score, how |-> "tt_exact"]
    ELSE IF e.node_type = ALPHA
         THEN [hit |-> TRUE, score |-> alpha, how |-> "tt_alpha"]
    ELSE [hit |-> TRUE, score |-> beta, how |-> "tt_beta"]

\* lines 157-163: the value an entry lets minimax return at once, if any
TTCut(e, depth, alpha, beta) ==
    IF ~(e.found /\ e.depth >= depth) THEN [hit |-> FALSE]
    ELSE IF e.node_type = EXACT THEN [hit |-> TRUE, score |-> e.score, how |-> "tt_exact"]
    ELSE IF e.node_type = ALPHA /\ e.score <= alpha
         THEN [hit |-> TRUE, score |-> alpha, how |-> "tt_alpha"]
    ELSE IF e.node_type = BETA /\ e.score >= beta
         THEN [hit |-> TRUE, score |-> beta, how |-> "tt_beta"]
    ELSE [hit |-> FALSE]

\* line 168: the mate score of a checkmated node
MateValue(is_maximising_player) ==
    IF is_maximising_player THEN -MATE_SCORE ELSE MATE_SCORE

\* lines 185-187 and 207-209: the table's move, when legal, is tried first
RECURSIVE IndexOfMove(_, _, _)
IndexOfMove(moves, id, i) ==
    IF i > Len(moves) THEN 0
    ELSE IF moves[i].id = id THEN i
    ELSE IndexOfMove(moves, id, i + 1)

\* the table's move put in front without being taken out of its place
TTMoveDuplicated(moves, e) ==
    LET i == IF e.found THEN IndexOfMove(moves, e.best_move, 1) ELSE 0
    IN  IF i = 0 THEN moves ELSE <<moves[i]>> \o moves

TTMoveFirst(moves, e) ==
    LET i == IF e.found THEN IndexOfMove(moves, e.best_move, 1) ELSE 0
    IN  IF i = 0 THEN moves ELSE <<moves[i]>> \o RemoveAt(moves, i)

\* lines 225-230: the bound type a searched node is stored with
StoredType(best_score, original_alpha, beta) ==
    IF best_score <= original_alpha THEN BETA
    ELSE IF best_score >= beta THEN ALPHA
    ELSE EXACT

\* the flag minimax hands to its children: lines 191 and 213
ChildFlag(is_maximising_player) == ~is_maximising_player

\* the loops of lines 189-222 without their board.pop()
KeepMove(st) == st

\* board.pop() after a child returns: lines 192 and 214
Unmake(st) == [st EXCEPT !.board = pop(st.board)]

\* lines 199 and 221: the cutoff test
Cutoff(alpha, beta) == beta <= alpha

RECURSIVE minimax(_, _, _, _, _)
RECURSIVE MoveLoop(_, _, _, _, _, _, _, _, _)

\* the for loops of lines 189-200 (maximising) and 211-222 (minimising)
MoveLoop(moves, i, depth, alpha, beta, best_score, best_move, is_max, st) ==
    IF i > Len(moves)
    THEN [best_score |-> best_score, best_move |-> best_move,
          alpha |-> alpha, beta |-> beta, cut |-> FALSE, st |-> st]
    ELSE
    LET move == moves[i]
        r == minimax(depth - 1, [st EXCEPT !.board = push(st.board, move)],
                     alpha, beta, ChildFlag(is_max))
        st2 == Unmake(r.st)
        score == r.score
        better == IF is_max THEN score > best_score ELSE score < best_score
        best_score2 == IF better THEN score ELSE best_score
        best_move2 == IF better THEN move.id ELSE best_move
        alpha2 == IF is_max THEN Max(alpha, score) ELSE alpha
        beta2 == IF is_max THEN beta ELSE Min(beta, score)
    IN  IF Cutoff(alpha2, beta2)
        THEN [best_score |-> best_score2, best_move |-> best_move2,
              alpha |-> alpha2, beta |-> beta2, cut |-> TRUE, st |-> st2]
        ELSE MoveLoop(moves, i + 1, depth, alpha2, beta2, best_score2, best_move2,
                      is_max, st2)

\* lines 224-234: l is what the loop left; original_alpha is the alpha the
\* call was made with, l.beta the beta the loop narrowed
StoreSearched(l, b0, depth, original_alpha, beta0, is_maximising_player) ==
    LET node_type == StoredType(l.best_score, original_alpha, l.beta)
    IN  Return([l.st EXCEPT !.tt = store(l.st.tt, l.st.board, depth, l.best_score,
                                         node_type, l.best_move)],
               b0, depth, original_alpha, beta0, is_maximising_player, l.best_score,
               IF l.cut THEN "cutoff" ELSE "searched")

\* minimax(depth, board, alpha, beta, is_maximising_player)
minimax(depth, st, alpha, beta, is_maximising_player) ==
    LET lk == lookup(st.tt, st.board)
        tt_entry == IF ~lk.found THEN [found |-> FALSE]
                    ELSE [found |-> TRUE, depth |-> lk.entry.depth,
                          score |-> lk.entry.score, node_type |-> lk.entry.node_type,
                          best_move |-> lk.entry.best_move]
        st1 == [st EXCEPT !.tt = lk.tt]
        cut == TTCut(tt_entry, depth, alpha, beta)
        st2 == [st1 EXCEPT !.nodes = @ + 1]
    IN  IF cut.hit
        THEN Return(st1, st.board, depth, alpha, beta, is_maximising_player,
                    cut.score, cut.how)
        ELSE IF is_checkmate(st2.board)
        THEN Return(st2, st.board, depth, alpha, beta, is_maximising_player,
                    MateValue(is_maximising_player), "checkmate")
        ELSE IF is_game_over(st2.board)
        THEN Return(st2, st.board, depth, alpha, beta, is_maximising_player,
                    0, "game_over")
        ELSE IF depth = 0
        THEN LET score == evaluate_board(st2.board)
             IN  Return([st2 EXCEPT !.tt = store(st2.tt, st2.board, 0, score, EXACT, None)],
                        st.board, depth, alpha, beta, is_maximising_player,
                        score, "leaf")
        ELSE
        StoreSearched(MoveLoop(TTMoveFirst(get_ordered_moves(st2.board), tt_entry),
                               1, depth, alpha, beta,
                               IF is_maximising_player THEN -Inf ELSE Inf, None,
                               is_maximising_player, st2),
                      st.board, depth, alpha, beta, is_maximising_player)

\* minimax_root handing its own flag to minimax unchanged
SameFlag(maximize) == maximize

\* the flag minimax_root hands to minimax: line 140
RootChildFlag(maximize) == ~maximize

\* a root that keeps the first of equally good moves
RootBetterStrict(maximize, value, best_move) ==
    IF maximize THEN value > best_move ELSE value < best_move

\* lines 142-147: does value replace the best root move found so far
RootBetter(maximize, value, best_move) ==
    IF maximize THEN value >= best_move ELSE value <= best_move

\* lines 137-140: the value of the move just pushed; st1 holds the board
\* after board.push(move)
RootValue(depth, maximize, st1) ==
    IF can_claim_draw(st1.board)
    THEN [score |-> 0, st |-> st1]
    ELSE minimax(depth - 1, st1, -Inf, Inf, RootChildFlag(maximize))

RECURSIVE RootLoop(_, _, _, _, _, _, _)
RECURSIVE RootStep(_, _, _, _, _, _, _)

\* lines 141-147: board.pop() and the update of the best move, then the next
\* move of the loop; r is what RootValue returned for moves[i]
RootStep(moves, i, depth, maximize, best_move, best_move_found, r) ==
    LET take == RootBetter(maximize, r.score, best_move)
    IN  RootLoop(moves, i + 1, depth, maximize,
                 IF take THEN r.score ELSE best_move,
                 IF take THEN moves[i].id ELSE best_move_found,
                 [r.st EXCEPT !.board = pop(r.st.board)])

\* the for loop of minimax_root, lines 135-147
RootLoop(moves, i, depth, maximize, best_move, best_move_found, st) ==
    IF i > Len(moves)
    THEN [move |-> best_move_found, value |-> best_move, st |-> st]
    ELSE RootStep(moves, i, depth, maximize, best_move, best_move_found,
                  RootValue(depth, maximize,
                            [st EXCEPT !.board = push(st.board, moves[i])]))

\* minimax_root guarding moves[0]: with no legal move it returns None
RootOfSilent(moves, depth, maximize, st) ==
    IF moves = <<>>
    THEN [raised |-> FALSE, move |-> None, value |-> 0, st |-> st]
    ELSE [raised |-> FALSE] @@
         RootLoop(moves, 1, depth, maximize,
                  IF maximize THEN -Inf ELSE Inf, moves[1].id, st)

\* lines 127-133 and 149 of minimax_root, given the ordered moves; moves[0] of
\* an empty list raises IndexError
RootOf(moves, depth, maximize, st) ==
    IF moves = <<>>
    THEN [raised |-> TRUE, move |-> None, value |-> 0, st |-> st]
    ELSE [raised |-> FALSE] @@
         RootLoop(moves, 1, depth, maximize,
                  IF maximize THEN -Inf ELSE Inf, moves[1].id, st)

\* minimax_root(depth, board)
minimax_root(depth, st) ==
    RootOf(get_ordered_moves(st.board), depth, turn(st.board) = WHITE, st)

----------------------------------------------------------------------------
(* movegeneration.py: quiescence_search *)

\* line 46: the value of a checkmated position
QMateValue(b) == IF turn(b) THEN -MATE_SCORE ELSE MATE_SCORE

\* quiescence_search without lines 55-56: alpha is left as it came
KeepAlpha(alpha, stand_pat) == alpha

\* lines 55-56: stand pat raises alpha
StandPatAlpha(alpha, stand_pat) == IF alpha < stand_pat THEN stand_pat ELSE alpha

RECURSIVE quiescence_search(_, _, _, _)
RECURSIVE QLoop(_, _, _, _, _, _, _)

\* the for loop of lines 59-73
QLoop(b, moves, i, alpha, beta, depth, nodes) ==
    IF i > Len(moves) THEN [score |-> alpha, nodes |-> nodes, board |-> b]
    ELSE IF ~is_capture(b, moves[i])
    THEN QLoop(b, moves, i + 1, alpha, beta, depth, nodes)
    ELSE
    LET r == quiescence_search(push(b, moves[i]), -beta, -alpha, depth - 1)
        score == -r.score
        b2 == pop(r.board)
        nodes2 == nodes + r.nodes
    IN  IF score >= beta THEN [score |-> beta, nodes |-> nodes2, board |-> b2]
        ELSE QLoop(b2, moves, i + 1, Max(alpha, score), beta, depth, nodes2)

\* quiescence_search(board, alpha, beta, depth): (score, nodes) and the board after
quiescence_search(b, alpha, beta, depth) ==
    LET nodes == 1
        stand_pat == evaluate_board(b)
    IN  IF is_checkmate(b) THEN [score |-> QMateValue(b), nodes |-> nodes, board |-> b]
        ELSE IF depth = 0 THEN [score |-> stand_pat, nodes |-> nodes, board |-> b]
        ELSE IF stand_pat >= beta THEN [score |-> beta, nodes |-> nodes, board |-> b]
        ELSE QLoop(b, legal_moves(b), 1, StandPatAlpha(alpha, stand_pat), beta,
                   depth, nodes)

----------------------------------------------------------------------------
(* opening_book.py *)

\* OpeningBook.__init__ without the except branch of lines 35-37: a reader
\* that fails to open leaves the book enabled
BookOfFile(file_exists, reader_opens, entries) ==
    [enabled |-> file_exists, entries |-> entries,
     file_exists |-> file_exists, reader_opens |-> reader_opens]

\* OpeningBook.__init__: enabled only when the file exists and the reader opens
\* (file_exists, reader_opens and entries describe the file at book_path)
NewBook(file_exists, reader_opens, entries) ==
    [enabled |-> file_exists /\ reader_opens, entries |-> entries,
     file_exists |-> file_exists, reader_opens |-> reader_opens]

\* self._reader.find_all(board): the entries stored under the board's key;
\* the reader leaves out entries whose move is not legal on the board
find_all(bk, b) ==
    SelectSeq(bk.entries[zobrist_hash(b)], LAMBDA e : e.move \in LegalIds(b))

\* line 60: entries of weight >= min_weight
valid_entries(bk, b, min_weight) ==
    SelectSeq(find_all(bk, b), LAMBDA e : e.weight >= min_weight)

RECURSIVE SumWeights(_, _)
SumWeights(entries, n) ==
    IF n = 0 THEN 0 ELSE SumWeights(entries, n - 1) + entries[n].weight

\* a scan that stops as soon as the running weight reaches the draw
RECURSIVE WeightedScanInclusive(_, _, _, _)
WeightedScanInclusive(entries, i, current_weight, choice) ==
    IF i > Len(entries) THEN None
    ELSE IF current_weight + entries[i].weight >= choice THEN entries[i].move
    ELSE WeightedScanInclusive(entries, i + 1, current_weight + entries[i].weight, choice)

\* lines 70-74: the cumulative-weight scan against the draw
RECURSIVE WeightedScan(_, _, _, _)
WeightedScan(entries, i, current_weight, choice) ==
    IF i > Len(entries) THEN None
    ELSE IF current_weight + entries[i].weight > choice THEN entries[i].move
    ELSE WeightedScan(entries, i + 1, current_weight + entries[i].weight, choice)

\* the values random.randint(0, total_weight - 1) can draw for this board
BookDraws(bk, b) ==
    IF bk.enabled /\ valid_entries(bk, b, MIN_WEIGHT) # <<>>
    THEN 0 .. (SumWeights(valid_entries(bk, b, MIN_WEIGHT),
                          Len(valid_entries(bk, b, MIN_WEIGHT))) - 1)
    ELSE {0}

\* OpeningBook.get_book_move(board) with weighted=True, min_weight=10
get_book_move(bk, b, choice) ==
    IF ~bk.enabled THEN None
    ELSE IF valid_entries(bk, b, MIN_WEIGHT) = <<>> THEN None
    ELSE WeightedScan(valid_entries(bk, b, MIN_WEIGHT), 1, 0, choice)

----------------------------------------------------------------------------
(* game_learner.py *)

\* move_score(data) as the fraction num/den, den > 0
move_score(data) ==
    IF data.num_times_played = 0
    THEN [num |-> data.avg_eval, den |-> 1000]
    ELSE IF data.num_times_played <= 10
    THEN [num |-> 100 * data.win_score + data.avg_eval, den |-> 1000]
    ELSE [num |-> 1000 * data.win_score + data.avg_eval * data.num_times_played,
          den |-> 1000 * data.num_times_played]

ScoreGreater(x, y) ==
    move_score(x).num * move_score(y).den > move_score(y).num * move_score(x).den

\* moves.sort(key=move_score, reverse=True): stable, best first
RECURSIVE InsertData(_, _)
InsertData(sorted, x) ==
    IF sorted = <<>> THEN <<x>>
    ELSE LET last == sorted[Len(sorted)]
         IN  IF ScoreGreater(x, last)
             THEN Append(InsertData(SubSeq(sorted, 1, Len(sorted) - 1), x), last)
             ELSE Append(sorted, x)

RECURSIVE SortData(_, _)
SortData(moves, n) ==
    IF n = 0 THEN <<>> ELSE InsertData(SortData(moves, n - 1), moves[n])

\* the loop of lines 188-196 without its legality test: the best-scored entry
\* is returned as it is
FirstEntry(moves, i, b) ==
    IF i > Len(moves) THEN None ELSE moves[i].move

\* lines 188-196: the first entry whose move parses and is legal
RECURSIVE FirstLegal(_, _, _)
FirstLegal(moves, i, b) ==
    IF i > Len(moves) THEN None
    ELSE IF moves[i].move \in LegalIds(b) THEN moves[i].move
    ELSE FirstLegal(moves, i + 1, b)

\* the key of GameLearner.positions: the first four FEN fields of the board
fen4(b) == b.pos

\* GameLearner.get_move_suggestion(board): the move and positions afterwards
get_move_suggestion(lr, b) ==
    LET moves == lr[fen4(b)]
    IN  IF moves = <<>> THEN [move |-> None, learner |-> lr]
        ELSE [move |-> FirstLegal(SortData(moves, Len(moves)), 1, b),
              learner |-> [lr EXCEPT ![fen4(b)] = SortData(moves, Len(moves))]]

----------------------------------------------------------------------------
(* movegeneration.py: next_move *)

\* time.time() - t0
Elapsed == "elapsed"

\* debug_info[key] = value
Put(d, key, value) ==
    [x \in DOMAIN d \cup {key} |-> IF x = key THEN value ELSE d[x]]

\* next_move without lines 80-81: the record of the previous call is kept
KeepTelemetry(dbg) == IF "nodes" \in DOMAIN dbg THEN dbg ELSE [nodes |-> 0]

\* lines 80-81: debug_info.clear(); debug_info["nodes"] = 0
ResetTelemetry(dbg) == [nodes |-> 0]

\* lines 87-88: the telemetry left when the book supplies the move
BookTelemetry(dbg) == Put(Put(dbg, "time", Elapsed), "book_move", TRUE)

\* lines 94-95: the telemetry left when the learner supplies the move
LearnedTelemetry(dbg) == Put(Put(dbg, "time", Elapsed), "learned_move", TRUE)

\* lines 101-103: the telemetry left when the search supplies the move
SearchTelemetry(dbg) ==
    Put(Put(Put(dbg, "time", Elapsed), "book_move", FALSE), "learned_move", FALSE)

\* next_move returning the first ordered move instead of the searched one
FirstOrderedMove(root, b) ==
    IF legal_moves(b) = <<>> THEN root.move ELSE get_ordered_moves(b)[1].id

\* line 99 and line 105: the move next_move returns after the search
SearchedMove(root, b) == root.move

\* lines 98-105: root is what minimax_root(depth, board) did; the nodes it
\* counted are in debug_info whether it returned or raised
AfterSearch(root, b, lr, dbg) ==
    LET counted == Put(dbg, "nodes", root.st.nodes)
    IN  IF root.raised
        THEN [stage |-> "search", raised |-> TRUE, move |-> None,
              board |-> root.st.board, tt |-> root.st.tt, learner |-> lr,
              debug_info |-> counted, calls |-> root.st.calls,
              book_move |-> None, learned_move |-> None]
        ELSE [stage |-> "search", raised |-> FALSE, move |-> SearchedMove(root, b),
              board |-> root.st.board, tt |-> root.st.tt, learner |-> lr,
              debug_info |-> SearchTelemetry(counted), calls |-> root.st.calls,
              book_move |-> None, learned_move |-> None]

\* lines 92-105: learned is what learner.get_move_suggestion(board) returned
AfterLearner(learned, depth, b, t, dbg) ==
    IF learned.move # None
    THEN [stage |-> "learned", raised |-> FALSE, move |-> learned.move,
          board |-> b, tt |-> t, learner |-> learned.learner,
          debug_info |-> LearnedTelemetry(dbg), calls |-> <<>>,
          book_move |-> None, learned_move |-> learned.move]
    ELSE AfterSearch(minimax_root(depth, SearchState(b, t, dbg.nodes)),
                     b, learned.learner, dbg)

\* lines 85-105: book_move is what book.get_book_move(board) returned and dbg
\* is debug_info after the reset
AfterBook(book_move, depth, b, t, lr, dbg) ==
    IF book_move # None
    THEN [stage |-> "book", raised |-> FALSE, move |-> book_move,
          board |-> b, tt |-> t, learner |-> lr,
          debug_info |-> BookTelemetry(dbg), calls |-> <<>>,
          book_move |-> book_move, learned_move |-> None]
    ELSE AfterLearner(get_move_suggestion(lr, b), depth, b, t, dbg)

\* next_move(depth, board); dbg is debug_info before the call and choice the
\* book's random draw
next_move(depth, b, t, bk, lr, dbg, choice) ==
    AfterBook(get_book_move(bk, b, choice), depth, b, t, lr, ResetTelemetry(dbg))

----------------------------------------------------------------------------
(* The games the model is run on *)

Positions == 0..10

Quiet(id, to, change) ==
    [id |-> id, to |-> to, promotion |-> FALSE, capture |-> FALSE,
     capture_value |-> 0, position_change |-> change]
Capture(id, to, value, change) ==
    [id |-> id, to |-> to, promotion |-> FALSE, capture |-> TRUE,
     capture_value |-> value, position_change |-> change]
Promotion(id, to) ==
    [id |-> id, to |-> to, promotion |-> TRUE, capture |-> FALSE,
     capture_value |-> 0, position_change |-> 0]

\* the moves of each position, in the rules engine's enumeration order
ShapeMoves ==
    [p \in Positions |->
        CASE p = 0 -> <<Capture("b", 2, -200, 0), Quiet("a", 1, 10)>>
          [] p = 1 -> <<Quiet("d", 4, 5), Capture("c", 3, 200, 0)>>
          [] p = 2 -> <<Quiet("e", 4, 20)>>
          [] p = 3 -> <<Capture("h", 6, -400, 10), Promotion("g", 5)>>
          [] p = 4 -> <<Capture("i", 6, 100, 0), Quiet("j", 7, -5)>>
          [] p = 5 -> <<Quiet("k", 8, 0)>>
          [] p = 6 -> <<Capture("l", 8, 300, 0), Capture("m", 9, 100, 0)>>
          [] p = 7 -> <<Promotion("n", 9)>>
          [] p = 8 -> <<Quiet("o", 10, 0)>>
          [] p = 9 -> <<Capture("p", 10, 100, 0)>>
          [] OTHER -> <<>>]

\* plies from position 0
Level(p) ==
    CASE p = 0 -> 0
      [] p \in {1, 2} -> 1
      [] p \in {3, 4} -> 2
      [] p \in {5, 6, 7} -> 3
      [] p \in {8, 9} -> 4
      [] OTHER -> 5

EvalValues == {-100, 0, 100}
Specials == {"none", "mate5", "draw7", "claim3", "stalemate10"}

\* a game: who moves first, the static evaluation of positions 8 and 9, and
\* one special feature (a mated or drawn position, a claimable draw)
MakeGame(root_turn, e8, e9, special) ==
    LET status == [p \in Positions |->
                     IF p = 10 THEN (IF special = "stalemate10" THEN "stalemate"
                                     ELSE "checkmate")
                     ELSE IF p = 5 /\ special = "mate5" THEN "checkmate"
                     ELSE IF p = 7 /\ special = "draw7" THEN "draw"
                     ELSE "play"]
    IN  [turn |-> [p \in Positions |-> IF Level(p) % 2 = 0 THEN root_turn ELSE ~root_turn],
         moves |-> [p \in Positions |->
                      IF status[p] \in {"checkmate", "stalemate"} THEN <<>>
                      ELSE ShapeMoves[p]],
         status |-> status,
         claim |-> [p \in Positions |-> p = 3 /\ special = "claim3"],
         eval |-> [p \in Positions |->
                     CASE p = 8 -> e8
                       [] p = 9 -> e9
                       [] p = 1 -> 30
                       [] p = 2 -> -30
                       [] p = 3 -> 10
                       [] p = 4 -> -10
                       [] p = 5 -> 50
                       [] p = 6 -> -50
                       [] p = 7 -> 20
                       [] OTHER -> 0]]

NoEntries == [p \in Positions |-> <<>>]

\* the opening-book files the model is run with: the raw entries per key
BookFiles ==
    {NoEntries,
     [NoEntries EXCEPT ![0] = <<[move |-> "a", weight |-> 20],
                                [move |-> "b", weight |-> 10]>>],
     [NoEntries EXCEPT ![0] = <<[move |-> "b", weight |-> 5],
                                [move |-> "zz", weight |-> 30]>>,
                       ![1] = <<[move |-> "c", weight |-> 10]>>]}

Data(move, played, wins, avg) ==
    [move |-> move, num_times_played |-> played, win_score |-> wins, avg_eval |-> avg]

\* the experience files the model is run with
ExperienceFiles ==
    {NoEntries,
     [NoEntries EXCEPT ![0] = <<Data("a", 2, 1, 0), Data("zz", 3, 3, 0),
                                Data("b", 12, 3, 0)>>],
     [NoEntries EXCEPT ![0] = <<Data("not-uci", 1, 1, 0)>>,
                       ![2] = <<Data("f", 0, 0, 20), Data("e", 1, 0, 0)>>]}

NewBoard == [pos |-> 0, stack |-> <<>>]

\* a board set up on position p: chess.Board(fen)
At(p) == [pos |-> p, stack |-> <<>>]

InitCommon ==
    /\ search_depth \in 0..MaxDepth
    /\ board = NewBoard
    /\ tt = NewTable(TT_MAX_ENTRIES)
    /\ debug_info = [x \in {} |-> 0]
    /\ ret = [op |-> "init", searched |-> FALSE]

\* games of every kind, played without book and without experience
InitSearchGames ==
    /\ game \in {MakeGame(r, e8, e9, s) :
                    r \in BOOLEAN, e8 \in EvalValues, e9 \in EvalValues, s \in Specials}
    /\ book = NewBook(FALSE, FALSE, NoEntries)
    /\ learner = NoEntries

\* one game, played with every book and experience file
InitPipelineGames ==
    /\ game \in {MakeGame(r, 100, 0, "none") : r \in BOOLEAN}
    /\ \E file_exists \in BOOLEAN, reader_opens \in BOOLEAN, entries \in BookFiles :
          book = NewBook(file_exists, reader_opens, entries)
    /\ learner \in ExperienceFiles

Init == InitCommon /\ (InitSearchGames \/ InitPipelineGames)

----------------------------------------------------------------------------
(* The operations *)

\* a caller asks for a move: move = next_move(depth, board)
NextMove ==
    /\ ~ret.searched
    /\ \E choice \in BookDraws(book, board) :
         \E r \in {next_move(search_depth, board, tt, book, learner, debug_info, choice)} :
             /\ board' = r.board
             /\ tt' = r.tt
             /\ learner' = r.learner
             /\ debug_info' = r.debug_info
             /\ ret' = [op |-> "next_move", searched |-> TRUE, depth |-> search_depth,
                        board_before |-> board, tt_before |-> tt,
                        learner_before |-> learner, debug_before |-> debug_info,
                        stage |-> r.stage, raised |-> r.raised, move |-> r.move,
                        book_move |-> r.book_move, learned_move |-> r.learned_move,
                        calls |-> r.calls]
    /\ UNCHANGED <<game, search_depth, book>>

\* the caller plays a move on its board: board.push(move)
Play ==
    /\ ret.searched
    /\ \E i \in 1..Len(legal_moves(board)) :
         /\ board' = push(board, legal_moves(board)[i])
         /\ ret' = [op |-> "push", searched |-> FALSE, move |-> legal_moves(board)[i].id]
    /\ UNCHANGED <<game, search_depth, tt, book, learner, debug_info>>

\* a caller runs quiescence_search(board, -inf, inf, d) on a board it has
\* not searched yet
Quiescence ==
    /\ ret.op \in {"init", "push"}
    /\ \E d \in 0..MaxQDepth :
         \E r \in {quiescence_search(board, -Inf, Inf, d)} :
             /\ board' = r.board
             /\ ret' = [op |-> "quiescence_search", searched |-> ret.searched,
                        depth |-> d, board_before |-> board,
                        score |-> r.score, nodes |-> r.nodes]
    /\ UNCHANGED <<game, search_depth, tt, book, learner, debug_info>>

Next == NextMove \/ Play \/ Quiescence

Spec == Init /\ [][Next]_vars

----------------------------------------------------------------------------
(* The transposition table driven on its own; ret.lookups counts the calls of
   lookup since the table was constructed or last cleared *)

\* the positions whose entries are stored and looked up
TTKeys == {1, 4}

\* the arguments store is called with: depth, score, node_type, best_move
TTStores ==
    {<<2, 70, EXACT, "c">>, <<0, -70, EXACT, None>>, <<1, 70, ALPHA, "d">>}

TTEvents(t) == t.hits + t.misses + t.collisions + t.current_age

InitTT ==
    /\ game = MakeGame(TRUE, 100, 0, "none")
    /\ search_depth = 0
    /\ board = NewBoard
    /\ \E max_entries \in 1..MaxEntries : tt = NewTable(max_entries)
    /\ book = NewBook(FALSE, FALSE, NoEntries)
    /\ learner = NoEntries
    /\ debug_info = [x \in {} |-> 0]
    /\ ret = [op |-> "init", searched |-> FALSE, lookups |-> 0]

\* tt.store(board, depth, score, node_type, best_move)
TTStore ==
    /\ Len(tt.table) >= tt.max_entries => TTEvents(tt) < MaxTTOps
    /\ \E p \in TTKeys, a \in TTStores :
         /\ tt' = store(tt, At(p), a[1], a[2], a[3], a[4])
         /\ ret' = [op |-> "store", searched |-> FALSE, pos |-> p, depth |-> a[1],
                    score |-> a[2], node_type |-> a[3], best_move |-> a[4],
                    tt_before |-> tt, lookups |-> ret.lookups]
    /\ UNCHANGED <<game, search_depth, board, book, learner, debug_info>>

\* tt.lookup(board)
TTLookup ==
    /\ TTEvents(tt) < MaxTTOps
    /\ \E p \in TTKeys :
         \E lk \in {lookup(tt, At(p))} :
             /\ tt' = lk.tt
             /\ ret' = [op |-> "lookup", searched |-> FALSE, pos |-> p,
                        found |-> lk.found, tt_before |-> tt,
                        lookups |-> ret.lookups + 1]
    /\ UNCHANGED <<game, search_depth, board, book, learner, debug_info>>

\* tt.new_search()
TTNewSearch ==
    /\ TTEvents(tt) < MaxTTOps
    /\ tt' = new_search(tt)
    /\ ret' = [op |-> "new_search", searched |-> FALSE, tt_before |-> tt,
               lookups |-> ret.lookups]
    /\ UNCHANGED <<game, search_depth, board, book, learner, debug_info>>

\* tt.clear()
TTClear ==
    /\ tt' = clear(tt)
    /\ ret' = [op |-> "clear", searched |-> FALSE, tt_before |-> tt, lookups |-> 0]
    /\ UNCHANGED <<game, search_depth, board, book, learner, debug_info>>

NextTT == TTStore \/ TTLookup \/ TTNewSearch \/ TTClear

SpecTT == InitTT /\ [][NextTT]_vars

----------------------------------------------------------------------------
(* The move ordering driven on its own *)

\* the kinds of move a list is made of
MoveKinds ==
    {Promotion("m", 1), Quiet("m", 1, 10), Quiet("m", 1, -10),
     Capture("m", 1, 300, 0), Capture("m", 1, -200, 5)}

MoveIds == <<"m1", "m2", "m3", "m4", "m5", "m6">>

\* every list of 1..MaxMoves moves, in the rules engine's enumeration order
MoveLists ==
    UNION {{[i \in 1..n |-> [kinds[i] EXCEPT !.id = MoveIds[i]]] :
                kinds \in [1..n -> MoveKinds]} : n \in 1..MaxMoves}

\* a game whose first position has the given side to move and legal moves
OrderGame(side, moves) ==
    [turn |-> [p \in Positions |-> side],
     moves |-> [p \in Positions |-> IF p = 0 THEN moves ELSE <<>>],
     status |-> [p \in Positions |-> "play"],
     claim |-> [p \in Positions |-> FALSE],
     eval |-> [p \in Positions |-> 0]]

InitOrder ==
    /\ game \in {OrderGame(side, moves) : side \in BOOLEAN, moves \in MoveLists}
    /\ search_depth = 0
    /\ board = NewBoard
    /\ tt = NewTable(TT_MAX_ENTRIES)
    /\ book = NewBook(FALSE, FALSE, NoEntries)
    /\ learner = NoEntries
    /\ debug_info = [x \in {} |-> 0]
    /\ ret = [op |-> "init", searched |-> FALSE]

\* moves = get_ordered_moves(board)
OrderMoves ==
    /\ ret.op = "init"
    /\ ret' = [op |-> "get_ordered_moves", searched |-> FALSE,
               moves |-> get_ordered_moves(board)]
    /\ UNCHANGED <<game, search_depth, board, tt, book, learner, debug_info>>

\* what tt.lookup(board) may have handed minimax at line 156: nothing, an entry
\* without a best move, or an entry whose best move is one of the ids (legal
\* in this position or not)
TTEntriesFor ==
    {[found |-> FALSE]} \cup
    {[found |-> TRUE, depth |-> 1, score |-> 0, node_type |-> EXACT, best_move |-> bm] :
        bm \in {None} \cup {MoveIds[i] : i \in 1..(MaxMoves + 1)}}

\* the list minimax iterates: lines 182-187 (and 204-209)
OrderForSearch ==
    /\ ret.op = "init"
    /\ \E e \in TTEntriesFor :
         ret' = [op |-> "minimax_moves", searched |-> FALSE, tt_entry |-> e,
                 moves |-> TTMoveFirst(get_ordered_moves(board), e)]
    /\ UNCHANGED <<game, search_depth, board, tt, book, learner, debug_info>>

NextOrder == OrderMoves \/ OrderForSearch

SpecOrder == InitOrder /\ [][NextOrder]_vars

----------------------------------------------------------------------------
(* evaluate.py: check_end_game, run on boards given by their pieces. Here
   game.pieces is the board's content, square by square (a1 = 0 .. h8 = 63) *)

SQUARES == 0..63

Piece(piece_type, color) == [piece_type |-> piece_type, color |-> color]

\* what board.piece_at gives for an empty square (None in the code)
NoPiece == [piece_type |-> None, color |-> None]
IsPiece(piece) == piece.piece_type # None

\* board.piece_at(square)
piece_at(b, square) == game.pieces[square]

\* the loop of lines 237-245, from square on, and the test of lines 247-250
RECURSIVE EndGameScan(_, _, _, _)
EndGameScan(b, square, queens, minors) ==
    IF square > 63
    THEN queens = 0 \/ (queens = 2 /\ minors <= 1)
    ELSE LET piece == piece_at(b, square)
         IN  EndGameScan(b, square + 1,
                 IF IsPiece(piece) /\ piece.piece_type = "QUEEN" THEN queens + 1 ELSE queens,
                 IF IsPiece(piece) /\ piece.piece_type \in {"BISHOP", "KNIGHT"}
                 THEN minors + 1 ELSE minors)

\* check_end_game(board)
check_end_game(b) == EndGameScan(b, 0, 0, 0)

\* n pieces of one colour: queens, or minor pieces (knights and bishops in turn)
Queens(color, n) == [i \in 1..n |-> Piece("QUEEN", color)]
Minors(color, n) ==
    [i \in 1..n |-> Piece(IF i % 2 = 1 THEN "KNIGHT" ELSE "BISHOP", color)]

\* a board with the two kings, a rook each and the given numbers of queens
\* and minor pieces, set down on the first squares
PiecesOf(wq, bq, wm, bm) ==
    LET placed == <<Piece("KING", WHITE), Piece("ROOK", WHITE)>> \o Queens(WHITE, wq)
                  \o Minors(WHITE, wm) \o Minors(BLACK, bm) \o Queens(BLACK, bq)
                  \o <<Piece("ROOK", BLACK), Piece("KING", BLACK)>>
    IN  [square \in SQUARES |->
            IF square < Len(placed) THEN placed[square + 1] ELSE NoPiece]

InitEndGame ==
    /\ \E wq, bq \in 0..MaxQueens, wm, bm \in 0..MaxMinors :
           game = [pieces |-> PiecesOf(wq, bq, wm, bm)]
    /\ search_depth = 0
    /\ board = NewBoard
    /\ tt = NewTable(TT_MAX_ENTRIES)
    /\ book = NewBook(FALSE, FALSE, NoEntries)
    /\ learner = NoEntries
    /\ debug_info = [x \in {} |-> 0]
    /\ ret = [op |-> "init", searched |-> FALSE]

\* end_game = check_end_game(board)
CheckEndGame ==
    /\ ret.op = "init"
    /\ ret' = [op |-> "check_end_game", searched |-> FALSE,
               end_game |-> check_end_game(board)]
    /\ UNCHANGED <<game, search_depth, board, tt, book, learner, debug_info>>

NextEndGame == CheckEndGame

SpecEndGame == InitEndGame /\ [][NextEndGame]_vars

----------------------------------------------------------------------------
(* evaluate.py: the piece-square tables and evaluate_piece. A table is the
   list of the source, so the bonus of square s is its element s + 1 *)

\* list(reversed(table))
Reversed(table) == [i \in 1..Len(table) |-> table[Len(table) + 1 - i]]

pawnEvalWhite ==
    <<
    0, 0, 0, 0, 0, 0, 0, 0,
    5, 10, 10, -20, -20, 10, 10, 5,
    5, -5, -10, 0, 0, -10, -5, 5,
    0, 0, 0, 20, 20, 0, 0, 0,
    5, 5, 10, 25, 25, 10, 5, 5,
    10, 10, 20, 30, 30, 20, 10, 10,
    50, 50, 50, 50, 50, 50, 50, 50,
    0, 0, 0, 0, 0, 0, 0, 0
    >>

knightEval ==
    <<
    -50, -40, -30, -30, -30, -30, -40, -50,
    -40, -20, 0, 0, 0, 0, -20, -40,
    -30, 0, 10, 15, 15, 10, 0, -30,
    -30, 5, 15, 20, 20, 15, 5, -30,
    -30, 0, 15, 20, 20, 15, 0, -30,
    -30, 5, 10, 15, 15, 10, 5, -30,
    -40, -20, 0, 5, 5, 0, -20, -40,
    -50, -40, -30, -30, -30, -30, -40, -50
    >>

bishopEvalWhite ==
    <<
    -20, -10, -10, -10, -10, -10, -10, -20,
    -10, 5, 0, 0, 0, 0, 5, -10,
    -10, 10, 10, 10, 10, 10, 10, -10,
    -10, 0, 10, 10, 10, 10, 0, -10,
    -10, 5, 5, 10, 10, 5, 5, -10,
    -10, 0, 5, 10, 10, 5, 0, -10,
    -10, 0, 0, 0, 0, 0, 0, -10,
    -20, -10, -10, -10, -10, -10, -10, -20
    >>

rookEvalWhite ==
    <<
    0, 0, 0, 5, 5, 0, 0, 0,
    -5, 0, 0, 0, 0, 0, 0, -5,
    -5, 0, 0, 0, 0, 0, 0, -5,
    -5, 0, 0, 0, 0, 0, 0, -5,
    -5, 0, 0, 0, 0, 0, 0, -5,
    -5, 0, 0, 0, 0, 0, 0, -5,
    5, 10, 10, 10, 10, 10, 10, 5,
    0, 0, 0, 0, 0, 0, 0, 0
    >>

queenEval ==
    <<
    -20, -10, -10, -5, -5, -10, -10, -20,
    -10, 0, 0, 0, 0, 0, 0, -10,
    -10, 0, 5, 5, 5, 5, 0, -10,
    -5, 0, 5, 5, 5, 5, 0, -5,
    0, 0, 5, 5, 5, 5, 0, -5,
    -10, 5, 5, 5, 5, 5, 0, -10,
    -10, 0, 5, 0, 0, 0, 0, -10,
    -20, -10, -10, -5, -5, -10, -10, -20
    >>

kingEvalWhite ==
    <<
    20, 30, 10, 0, 0, 10, 30, 20,
    20, 20, 0, 0, 0, 0, 20, 20,
    -10, -20, -20, -20, -20, -20, -20, -10,
    20, -30, -30, -40, -40, -30, -30, -20,
    -30, -40, -40, -50, -50, -40, -40, -30,
    -30, -40, -40, -50, -50, -40, -40, -30,
    -30, -40, -40, -50, -50, -40, -40, -30,
    -30, -40, -40, -50, -50, -40, -40, -30
    >>

kingEvalEndGameWhite ==
    <<
    50, -30, -30, -30, -30, -30, -30, -50,
    -30, -30, 0, 0, 0, 0, -30, -30,
    -30, -10, 20, 30, 30, 20, -10, -30,
    -30, -10, 30, 40, 40, 30, -10, -30,
    -30, -10, 30, 40, 40, 30, -10, -30,
    -30, -10, 20, 30, 30, 20, -10, -30,
    -30, -20, -10, 0, 0, -10, -20, -30,
    -50, -40, -30, -20, -20, -30, -40, -50
    >>

pawnEvalBlack == Reversed(pawnEvalWhite)
bishopEvalBlack == Reversed(bishopEvalWhite)
rookEvalBlack == Reversed(rookEvalWhite)
kingEvalBlack == Reversed(kingEvalWhite)
kingEvalEndGameBlack == Reversed(kingEvalEndGameWhite)

\* the table evaluate_piece chooses: lines 180-199
MappingOf(piece, end_game) ==
    CASE piece.piece_type = "PAWN" ->
             (IF piece.color = WHITE THEN pawnEvalWhite ELSE pawnEvalBlack)
      [] piece.piece_type = "KNIGHT" -> knightEval
      [] piece.piece_type = "BISHOP" ->
             (IF piece.color = WHITE THEN bishopEvalWhite ELSE bishopEvalBlack)
      [] piece.piece_type = "ROOK" ->
             (IF piece.color = WHITE THEN rookEvalWhite ELSE rookEvalBlack)
      [] piece.piece_type = "QUEEN" -> queenEval
      [] piece.piece_type = "KING" ->
             (IF end_game
              THEN (IF piece.color = WHITE THEN kingEvalEndGameWhite
                    ELSE kingEvalEndGameBlack)
              ELSE (IF piece.color = WHITE THEN kingEvalWhite ELSE kingEvalBlack))

\* evaluate_piece(piece, square, end_game)
evaluate_piece(piece, square, end_game) == MappingOf(piece, end_game)[square + 1]

PieceTypes == {"PAWN", "KNIGHT", "BISHOP", "ROOK", "QUEEN", "KING"}

InitPiece ==
    /\ game = [pieces |-> [square \in SQUARES |-> NoPiece]]
    /\ search_depth = 0
    /\ board = NewBoard
    /\ tt = NewTable(TT_MAX_ENTRIES)
    /\ book = NewBook(FALSE, FALSE, NoEntries)
    /\ learner = NoEntries
    /\ debug_info = [x \in {} |-> 0]
    /\ ret = [op |-> "init", searched |-> FALSE]

\* evaluate_piece(piece, square, end_game), as lines 142-143 and 221 call it
EvaluatePiece ==
    /\ ret.op = "init"
    /\ \E piece_type \in PieceTypes, color \in {WHITE, BLACK},
          square \in SQUARES, end_game \in BOOLEAN :
           ret' = [op |-> "evaluate_piece", searched |-> FALSE,
                   piece |-> Piece(piece_type, color), square |-> square,
                   end_game |-> end_game,
                   value |-> evaluate_piece(Piece(piece_type, color), square, end_game)]
    /\ UNCHANGED <<game, search_depth, board, tt, book, learner, debug_info>>

NextPiece == EvaluatePiece

SpecPiece == InitPiece /\ [][NextPiece]_vars

----------------------------------------------------------------------------
(* The opening book driven on its own *)

\* the entries a book file may hold for the starting position: moves legal
\* there ("a", "b") or not ("zz"), with weights below, at and above min_weight
BookEntryChoices ==
    {[move |-> m, weight |-> w] : m \in {"a", "b", "zz"}, w \in {5, 10, 20}}

BookEntryLists ==
    UNION {[1..n -> BookEntryChoices] : n \in 0..MaxBookEntries}

InitBook ==
    /\ game = MakeGame(TRUE, 100, 0, "none")
    /\ search_depth = 0
    /\ board = NewBoard
    /\ tt = NewTable(TT_MAX_ENTRIES)
    /\ \E reader_opens \in BOOLEAN, entries \in BookEntryLists :
           book = NewBook(TRUE, reader_opens, [NoEntries EXCEPT ![0] = entries])
    /\ learner = NoEntries
    /\ debug_info = [x \in {} |-> 0]
    /\ ret = [op |-> "init", searched |-> FALSE]

\* book_move = book.get_book_move(board), for each value the draw can take
GetBookMove ==
    /\ ret.op = "init"
    /\ \E choice \in BookDraws(book, board) :
           ret' = [op |-> "get_book_move", searched |-> FALSE, choice |-> choice,
                   move |-> get_book_move(book, board, choice)]
    /\ UNCHANGED <<game, search_depth, board, tt, book, learner, debug_info>>

NextBook == GetBookMove

SpecBook == InitBook /\ [][NextBook]_vars

----------------------------------------------------------------------------
(* batch_analysis.py: play_game. Here game holds the argument
   my_engine_is_white, board is what play_game observes of its chess board
   (side to move, how the game stands, the static evaluation, whether only
   kings and minor pieces are left, whether the position has now been seen
   three times) and ret holds move_count, the fields of game_stats the claims
   read, and how far play_game has come *)

\* what a board can look like after a move by the side that was to move
BoardsAfter(b) ==
    {[turn |-> ~b.turn, status |-> s, eval |-> e, likely_draw |-> d, repeated |-> r] :
        s \in {"play", "checkmate", "stalemate", "insufficient_material", "other"},
        e \in {-2000, 0, 2000}, d \in BOOLEAN, r \in BOOLEAN}

\* chess.Board(): line 52
StartBoard ==
    [turn |-> WHITE, status |-> "play", eval |-> 0, likely_draw |-> FALSE,
     repeated |-> FALSE]

\* line 97
material_difference_too_large(b) ==
    (IF b.eval >= 0 THEN b.eval ELSE -b.eval) > MERCY_MARGIN

\* game_stats after a break out of the loop; lines 198-202 leave it as it is
Broke(move_count, termination, result, winner) ==
    [op |-> "play_game", searched |-> FALSE, pc |-> "returned",
     move_count |-> move_count, termination |-> termination,
     result |-> result, winner |-> winner]

\* lines 202-231: the result of a game the loop left without setting one
EndOfGame(b, my_engine_is_white, move_count) ==
    IF b.status = "checkmate"
    THEN IF (b.turn = BLACK) = my_engine_is_white
         THEN Broke(move_count, "checkmate", "1-0", "MyEngine")
         ELSE Broke(move_count, "checkmate", "0-1", "Stockfish")
    ELSE IF b.status = "stalemate"
    THEN Broke(move_count, "stalemate", "1/2-1/2", "Draw")
    ELSE IF b.status = "insufficient_material"
    THEN Broke(move_count, "insufficient_material", "1/2-1/2", "Draw")
    ELSE Broke(move_count, "other", "1/2-1/2", "Draw")

InitPlayGame ==
    /\ \E my_engine_is_white \in BOOLEAN :
           game = [my_engine_is_white |-> my_engine_is_white]
    /\ search_depth = 2
    /\ board = StartBoard
    /\ tt = NewTable(TT_MAX_ENTRIES)
    /\ book = NewBook(FALSE, FALSE, NoEntries)
    /\ learner = NoEntries
    /\ debug_info = [x \in {} |-> 0]
    /\ ret = [op |-> "play_game", searched |-> FALSE, pc |-> "loop", move_count |-> 0,
              termination |-> None, result |-> None, winner |-> None]

\* one pass of the while loop of lines 109-196; a break goes on to the return
\* of line 233, an exception leaves play_game without a record
PlayGameIteration ==
    /\ ret.pc = "loop"
    /\ board.status = "play" /\ ret.move_count < MAX_MOVES
    /\ \/ /\ board.repeated
          /\ ret' = Broke(ret.move_count + 1, "repetition", "1/2-1/2", "Draw")
          /\ board' = board
       \/ /\ ~board.repeated /\ material_difference_too_large(board)
          /\ ret' = Broke(ret.move_count + 1, "mercy_rule",
                          IF board.eval > 0 THEN "1-0" ELSE "0-1", "Draw")
          /\ board' = board
       \/ /\ ~board.repeated /\ ~material_difference_too_large(board)
          /\ board.likely_draw
          /\ ret' = Broke(ret.move_count + 1, "likely_draw", "1/2-1/2", "Draw")
          /\ board' = board
       \/ /\ ~board.repeated /\ ~material_difference_too_large(board)
          /\ ~board.likely_draw
          /\ \/ /\ ret' = [ret EXCEPT !.pc = "raised", !.move_count = @ + 1]
                /\ board' = board
             \/ /\ ret' = Broke(ret.move_count + 1, "timeout", "1/2-1/2", "Draw")
                /\ board' = board
             \/ /\ ret' = Broke(ret.move_count + 1, "no_move", "1/2-1/2", "Draw")
                /\ board' = board
             \/ /\ ret' = [ret EXCEPT !.move_count = @ + 1]
                /\ board' \in BoardsAfter(board)
    /\ UNCHANGED <<game, search_depth, tt, book, learner, debug_info>>

\* the loop condition of line 109 fails: lines 198-233
PlayGameReturn ==
    /\ ret.pc = "loop"
    /\ ~(board.status = "play" /\ ret.move_count < MAX_MOVES)
    /\ ret' = EndOfGame(board, game.my_engine_is_white, ret.move_count)
    /\ UNCHANGED <<game, search_depth, board, tt, book, learner, debug_info>>

NextPlayGame == PlayGameIteration \/ PlayGameReturn

SpecPlayGame == InitPlayGame /\ [][NextPlayGame]_vars

----------------------------------------------------------------------------
(* chess_gui.py: the event handlers of ChessGUI. Here ret holds the fields of
   the ChessGUI object the handlers read and write (selected stands for
   selected_square is not None), pgn_games, the games in the PGN directory,
   each the list of its moves, and ai_moves, the number of moves make_ai_move
   has made; board is self.board *)

\* self.player_color: line 110
player_color == WHITE

\* the legal move of board b with the given id, as a one-element set (empty
\* when there is none)
MovesById(b, id) == {m \in SeqToSet(legal_moves(b)) : m.id = id}

\* the moves of board.move_stack
StackIds(b) == [i \in 1..Len(b.stack) |-> b.stack[i].move]

\* the board after the first n of the moves ids, played from b; a move that is
\* not legal where it is to be played ends the replay
RECURSIVE Replay(_, _, _, _)
Replay(b, ids, i, n) ==
    IF i > n \/ MovesById(b, ids[i]) = {} THEN b
    ELSE Replay(push(b, CHOOSE m \in MovesById(b, ids[i]) : TRUE), ids, i + 1, n)

\* ChessGUI.__init__: lines 83-84 and 107-130
NewGui ==
    [op |-> "gui", searched |-> FALSE, ai_thinking |-> FALSE, game_over |-> FALSE,
     selected |-> FALSE, valid_moves |-> <<>>, move_history |-> <<>>,
     current_move_index |-> 0, pgn_games |-> {}, ai_moves |-> 0]

\* load_game(game): lines 362-371
load_game(g, ids) ==
    [gui |-> [g EXCEPT !.move_history = ids, !.current_move_index = Len(ids)],
     board |-> Replay(NewBoard, ids, 1, Len(ids))]

\* navigate_moves(direction): lines 373-386
navigate_moves(g, b, direction) ==
    LET target_index == g.current_move_index + direction
    IN  IF 0 <= target_index /\ target_index <= Len(g.move_history)
        THEN [gui |-> [g EXCEPT !.current_move_index = target_index],
              board |-> Replay(NewBoard, g.move_history, 1, target_index)]
        ELSE [gui |-> g, board |-> b]

\* lines 412-424: the player's move m is pushed. valid_moves is the list made
\* when the piece was selected; if the board was replaced since and m is not a
\* move of the board as it is now, the board that results is no position of
\* the game and the GUI is followed no further
PlayerMoved(g, b, m) ==
    IF m \notin SeqToSet(legal_moves(b))
    THEN [gui |-> [g EXCEPT !.op = "illegal_push"], board |-> b]
    ELSE [gui |-> [g EXCEPT !.selected = FALSE, !.valid_moves = <<>>,
                            !.game_over = IF is_game_over(push(b, m)) THEN TRUE ELSE @,
                            !.ai_thinking = IF is_game_over(push(b, m)) THEN @ ELSE TRUE],
          board |-> push(b, m)]

\* lines 393-432 of handle_click: what a click can lead to, by the square it
\* falls on and the time since the last move
BoardClick(g, b) ==
    IF g.game_over \/ g.ai_thinking \/ turn(b) # player_color
    THEN {[gui |-> g, board |-> b]}
    ELSE IF g.selected
    THEN {[gui |-> g, board |-> b],
          [gui |-> [g EXCEPT !.selected = FALSE, !.valid_moves = <<>>], board |-> b]}
         \cup {PlayerMoved(g, b, g.valid_moves[i]) : i \in 1..Len(g.valid_moves)}
    ELSE {[gui |-> g, board |-> b],
          [gui |-> [g EXCEPT !.selected = TRUE, !.valid_moves = legal_moves(b)],
           board |-> b]}

InitGui ==
    /\ game = MakeGame(TRUE, 100, 0, "none")
    /\ search_depth = GUI_DEPTH
    /\ board = NewBoard
    /\ tt = NewTable(TT_MAX_ENTRIES)
    /\ book = NewBook(FALSE, FALSE, NoEntries)
    /\ learner = NoEntries
    /\ debug_info = [x \in {} |-> 0]
    /\ ret = NewGui

\* handle_click(pos) with pos on the board: handle_pgn_button_click does
\* nothing and returns None
ClickBoard ==
    /\ ret.op = "gui"
    /\ \E o \in BoardClick(ret, board) : ret' = o.gui /\ board' = o.board
    /\ UNCHANGED <<game, search_depth, tt, book, learner, debug_info>>

\* handle_click(pos) with pos on the Save button: lines 341-346, then, as
\* handle_pgn_button_click returns None, lines 393-432
ClickSave ==
    /\ ret.op = "gui"
    /\ Cardinality(ret.pgn_games \cup {StackIds(board)}) <= MaxSaves
    /\ \E o \in BoardClick([ret EXCEPT !.pgn_games = @ \cup {StackIds(board)}], board) :
           ret' = o.gui /\ board' = o.board
    /\ UNCHANGED <<game, search_depth, tt, book, learner, debug_info>>

\* handle_click(pos) with pos on the Load button: lines 348-354 (games[-1] is
\* the last file os.listdir happens to list), then lines 393-432
ClickLoad ==
    /\ ret.op = "gui"
    /\ \E ids \in ret.pgn_games :
         \E l \in {load_game(ret, ids)} :
           \E o \in BoardClick(l.gui, l.board) : ret' = o.gui /\ board' = o.board
    /\ UNCHANGED <<game, search_depth, tt, book, learner, debug_info>>

\* handle_click(pos) with pos on the Previous button: lines 356-357, then
\* lines 393-432
ClickPrev ==
    /\ ret.op = "gui"
    /\ \E n \in {navigate_moves(ret, board, -1)} :
           \E o \in BoardClick(n.gui, n.board) : ret' = o.gui /\ board' = o.board
    /\ UNCHANGED <<game, search_depth, tt, book, learner, debug_info>>

\* handle_click(pos) with pos on the Next button: lines 359-360, then lines
\* 393-432
ClickNext ==
    /\ ret.op = "gui"
    /\ \E n \in {navigate_moves(ret, board, 1)} :
           \E o \in BoardClick(n.gui, n.board) : ret' = o.gui /\ board' = o.board
    /\ UNCHANGED <<game, search_depth, tt, book, learner, debug_info>>

\* make_ai_move(), once move_delay has passed: lines 434-454; an exception
\* raised by next_move ends the program
MakeAIMove ==
    /\ ret.op = "gui"
    /\ ret.ai_thinking /\ ~ret.game_over
    /\ ret.ai_moves < MaxAiMoves
    /\ \E r \in {next_move(GUI_DEPTH, board, tt, book, learner, debug_info, 0)} :
         /\ tt' = r.tt
         /\ learner' = r.learner
         /\ debug_info' = r.debug_info
         /\ IF r.raised
            THEN /\ ret' = [ret EXCEPT !.op = "crashed", !.ai_moves = @ + 1]
                 /\ board' = r.board
            ELSE /\ board' = Replay(r.board, <<r.move>>, 1, 1)
                 /\ ret' = [ret EXCEPT !.ai_thinking = FALSE, !.ai_moves = @ + 1,
                                       !.game_over =
                                           IF is_game_over(Replay(r.board, <<r.move>>, 1, 1))
                                           THEN TRUE ELSE @]
    /\ UNCHANGED <<game, search_depth, book>>

NextGui == ClickBoard \/ ClickSave \/ ClickLoad \/ ClickPrev \/ ClickNext \/ MakeAIMove

SpecGui == InitGui /\ [][NextGui]_vars

----------------------------------------------------------------------------
(* Reference definitions the claims are stated with *)

RECURSIVE PlainBest(_, _, _, _, _, _)
RECURSIVE PlainMinimax(_, _, _)

\* depth-limited minimax with the leaf evaluation of the search and neither
\* pruning nor table
PlainMinimax(d, b, is_max) ==
    IF is_checkmate(b) THEN (IF is_max THEN -MATE_SCORE ELSE MATE_SCORE)
    ELSE IF is_game_over(b) THEN 0
    ELSE IF d = 0 THEN evaluate_board(b)
    ELSE PlainBest(d, b, is_max, legal_moves(b), 1, IF is_max THEN -Inf ELSE Inf)

PlainBest(d, b, is_max, moves, i, best) ==
    IF i > Len(moves) THEN best
    ELSE LET v == PlainMinimax(d - 1, push(b, moves[i]), ~is_max)
         IN  PlainBest(d, b, is_max, moves, i + 1,
                       IF is_max THEN Max(best, v) ELSE Min(best, v))

\* the minimax calls of the last next_move, in order of return
Calls == IF ret.op = "next_move" THEN ret.calls ELSE <<>>
CallSet == SeqToSet(Calls)

\* the calls that counted a node: those the table did not answer
RECURSIVE CountNodes(_, _)
CountNodes(calls, n) ==
    IF n = 0 THEN 0
    ELSE CountNodes(calls, n - 1)
         + (IF calls[n].how \in {"tt_exact", "tt_alpha", "tt_beta"} THEN 0 ELSE 1)

HasCaptures(b) == \E i \in 1..Len(legal_moves(b)) : is_capture(b, legal_moves(b)[i])

----------------------------------------------------------------------------
(* The claims *)

\* C1: for every position with at least one legal move and every depth >= 1,
\* next_move returns (does not raise) and the move it returns is one of the
\* position's legal moves, whichever stage produced it.
C1_NextMoveLegal ==
    (ret.op = "next_move" /\ ret.depth >= 1 /\ legal_moves(ret.board_before) # <<>>)
        => (~ret.raised /\ ret.move \in LegalIds(ret.board_before))

\* C1 witness: a search of depth >= 1 chose among several legal moves.
C1_Witness ==
    /\ ret.op = "next_move" /\ ret.depth >= 1 /\ ret.stage = "search"
    /\ Len(legal_moves(ret.board_before)) >= 2
    /\ ret.move \in LegalIds(ret.board_before)

\* C2: every minimax call made with the full window (-inf, +inf) and depth >= 0
\* returns the value of plain depth-limited minimax of that position, depth
\* and maximising flag, whatever earlier calls left in the shared table.
C2_AlphaBetaEqualsPlain ==
    \A c \in CallSet :
        (c.alpha = -Inf /\ c.beta = Inf /\ c.depth >= 0)
            => c.score = PlainMinimax(c.depth, At(c.pos), c.is_max)

\* the move minimax_root computes for the position and table next_move was
\* called with
RootResult ==
    minimax_root(ret.depth, SearchState(ret.board_before, ret.tt_before, 0))

\* what the learner suggests for the position next_move was called with
LearnerResult == get_move_suggestion(ret.learner_before, ret.board_before).move

\* C3 as stated: whenever the book has no move, the move next_move returns is
\* the one minimax_root computes for the position.
C3_Original ==
    (ret.op = "next_move" /\ ret.book_move = None /\ ~ret.raised)
        => ret.move = RootResult.move

\* C3 as amended: the book is asked first and its move, if any, is returned;
\* on a book miss the learner is asked and its move, if any, is returned; only
\* when both miss is the move the one minimax_root computes (and the call
\* raises exactly when the position has no legal move).
C3_BookThenLearnerThenSearch ==
    ret.op = "next_move" =>
        /\ ret.book_move # None => (ret.stage = "book" /\ ret.move = ret.book_move)
        /\ (ret.book_move = None /\ LearnerResult # None)
              => (ret.stage = "learned" /\ ~ret.raised /\ ret.move = LearnerResult)
        /\ (ret.book_move = None /\ LearnerResult = None)
              => /\ ret.stage = "search"
                 /\ ret.raised = RootResult.raised
                 /\ ret.move = RootResult.move

\* C3 witness: the book is enabled and has entries for the position but none
\* eligible, the learner has entries but none legal, and the search decided.
C3_Witness ==
    /\ ret.op = "next_move" /\ ret.stage = "search" /\ ~ret.raised
    /\ book.enabled /\ book.entries[ret.board_before.pos] # <<>>
    /\ ret.learner_before[ret.board_before.pos] # <<>>
    /\ ret.move = RootResult.move
    /\ Len(legal_moves(ret.board_before)) >= 2

\* C4: when next_move (and minimax_root inside it), every minimax call and
\* quiescence_search return, the board (position and move stack) is what it
\* was when the call was made.
C4_BoardRestored ==
    /\ ret.op \in {"next_move", "quiescence_search"} => board = ret.board_before
    /\ \A c \in CallSet : c.board_out = c.board_in

\* C4 witness: a search on a board with moves already on its stack returned
\* after an alpha-beta cutoff and a table early return inside it.
C4_Witness ==
    /\ ret.op = "next_move" /\ ret.board_before.stack # <<>>
    /\ board = ret.board_before
    /\ \E c \in CallSet : c.how = "cutoff" /\ c.board_out = c.board_in
    /\ \E c \in CallSet : c.how \in {"tt_exact", "tt_alpha", "tt_beta"}

\* the windows and flags a minimax call is made with
TTWindows == {<<-Inf, Inf>>, <<-70, 70>>, <<70, Inf>>, <<-Inf, -70>>, <<0, 1>>}

\* C5: after store(board, d, s, EXACT, m) an immediately following
\* lookup(board) finds an entry of depth d, score s, type EXACT and best move
\* m, whatever the table held before, and a minimax call on the position with
\* requested depth <= d returns s.
C5_RoundTrip ==
    (ret.op = "store" /\ ret.node_type = EXACT) =>
        LET lk == lookup(tt, At(ret.pos))
        IN  /\ lk.found
            /\ lk.entry.depth = ret.depth /\ lk.entry.score = ret.score
            /\ lk.entry.node_type = EXACT /\ lk.entry.best_move = ret.best_move
            /\ \A d \in -1..ret.depth, w \in TTWindows, is_max \in BOOLEAN :
                  minimax(d, SearchState(At(ret.pos), tt, 0), w[1], w[2], is_max).score
                      = ret.score

\* C5 witness: the store hit a full table that already held a deeper entry
\* with another score for the same position.
C5_Witness ==
    /\ ret.op = "store" /\ ret.node_type = EXACT
    /\ Len(ret.tt_before.table) >= ret.tt_before.max_entries
    /\ \E i \in 1..Len(ret.tt_before.table) :
          /\ ret.tt_before.table[i].key = ret.pos
          /\ ret.tt_before.table[i].depth > ret.depth
          /\ ret.tt_before.table[i].score # ret.score
    /\ lookup(tt, At(ret.pos)).entry.score = ret.score

\* C6: at every node of the search the maximising flag equals 'White is to
\* move', and on a checkmated position the search returns -MATE_SCORE when
\* White is to move (and mated) and +MATE_SCORE when Black is.
C6_MateSign ==
    \A c \in CallSet :
        /\ c.is_max = (turn(At(c.pos)) = WHITE)
        /\ is_checkmate(At(c.pos))
              => c.score = (IF turn(At(c.pos)) = WHITE THEN -MATE_SCORE ELSE MATE_SCORE)

\* C6 witness: the search reached a position where White is checkmated and
\* one where the side to move differs from the root's.
C6_Witness ==
    /\ \E c \in CallSet :
          is_checkmate(At(c.pos)) /\ turn(At(c.pos)) = WHITE /\ c.score = -MATE_SCORE
    /\ \E c \in CallSet : ~c.is_max

\* C7 as stated: on a position with no legal captures, checkmated positions
\* included, quiescence_search(board, -inf, +inf, d) returns
\* evaluate_board(board) for every d >= 0.
C7_Original ==
    (ret.op = "quiescence_search" /\ ~HasCaptures(ret.board_before))
        => ret.score = evaluate_board(ret.board_before)

\* C7 as amended: on a position with no legal captures that is not checkmate
\* (stalemate included) it returns evaluate_board(board) for every d >= 0; on
\* a checkmated position it returns the mate score, -MATE_SCORE when White is
\* to move and +MATE_SCORE when Black is.
C7_QuietPosition ==
    (ret.op = "quiescence_search" /\ ~HasCaptures(ret.board_before))
        => ret.score = (IF is_checkmate(ret.board_before)
                        THEN (IF turn(ret.board_before) = WHITE
                              THEN -MATE_SCORE ELSE MATE_SCORE)
                        ELSE evaluate_board(ret.board_before))

\* C7 witness: a position with legal moves, none a capture, searched with a
\* budget >= 1, whose evaluation is not zero.
C7_Witness ==
    /\ ret.op = "quiescence_search" /\ ret.depth >= 1
    /\ legal_moves(ret.board_before) # <<>> /\ ~HasCaptures(ret.board_before)
    /\ ret.score = evaluate_board(ret.board_before) /\ ret.score # 0

\* C8: in the list get_ordered_moves returns, every promotion comes before
\* every move that is not a promotion, with White to move and with Black.
C8_PromotionsFirst ==
    ret.op = "get_ordered_moves" =>
        \A i, j \in 1..Len(ret.moves) :
            (ret.moves[i].promotion /\ ~ret.moves[j].promotion) => i < j

\* C8 witness: with Black to move, a promotion enumerated last behind a
\* capture and a quiet move came out first.
C8_Witness ==
    /\ ret.op = "get_ordered_moves" /\ turn(board) = BLACK
    /\ Len(legal_moves(board)) >= 3
    /\ legal_moves(board)[1].capture /\ ~legal_moves(board)[1].promotion
    /\ ~legal_moves(board)[2].promotion
    /\ legal_moves(board)[Len(legal_moves(board))].promotion
    /\ ret.moves[1].promotion
    /\ Len(ret.moves) = Len(legal_moves(board))

\* C9: if the book file is missing or fails to load the book is disabled in
\* every state, every get_book_move returns None, and next_move goes on to
\* the later stages and returns a legal move when the position has one.
C9_DisabledBook ==
    (~book.file_exists \/ ~book.reader_opens) =>
        /\ ~book.enabled
        /\ \A choice \in BookDraws(book, board) : get_book_move(book, board, choice) = None
        /\ ret.op = "next_move" =>
              /\ ret.book_move = None /\ ret.stage \in {"learned", "search"}
              /\ legal_moves(ret.board_before) # <<>>
                    => (~ret.raised /\ ret.move \in LegalIds(ret.board_before))

\* C9 witness: the file exists, holds entries for the position but failed to
\* load, and next_move returned a searched move.
C9_Witness ==
    /\ book.file_exists /\ ~book.reader_opens /\ ~book.enabled
    /\ ret.op = "next_move" /\ book.entries[ret.board_before.pos] # <<>>
    /\ ret.stage = "search" /\ ret.move \in LegalIds(ret.board_before)

\* C10: each next_move call resets the record at its start, and on every
\* return path (book, learned, searched) the record holds the node count of
\* this call only, the elapsed time, and a book flag that is present and true
\* exactly when the returned move came from the opening book.
C10_Telemetry ==
    (ret.op = "next_move" /\ ~ret.raised) =>
        /\ {"nodes", "time"} \subseteq DOMAIN debug_info
        /\ debug_info.nodes = CountNodes(ret.calls, Len(ret.calls))
        /\ debug_info.time = Elapsed
        /\ ("book_move" \in DOMAIN debug_info /\ debug_info.book_move = TRUE)
              <=> (ret.stage = "book")
        /\ "book_move" \in DOMAIN debug_info => debug_info.book_move \in BOOLEAN
        /\ ret.stage # "search" => debug_info.nodes = 0

\* C10 witness: a call that searched returned after an earlier call on the
\* same game had counted nodes of its own.
C10_Witness ==
    /\ ret.op = "next_move" /\ ret.stage = "search" /\ ~ret.raised
    /\ "nodes" \in DOMAIN ret.debug_before /\ ret.debug_before.nodes > 0
    /\ debug_info.nodes > 0
    /\ debug_info.nodes = CountNodes(ret.calls, Len(ret.calls))

\* C11: when next_move is called on a position with no legal moves and
\* neither the book nor the learner supplies a move, the call ends in an
\* error (IndexError at moves[0]); it returns no move and no other value.
C11_NoMovesRaises ==
    (/\ ret.op = "next_move" /\ legal_moves(ret.board_before) = <<>>
     /\ ret.book_move = None /\ ret.learned_move = None)
        => (ret.stage = "search" /\ ret.raised /\ ret.move = None)

\* C11 witness: with the book loaded, the game was played to a position
\* where the side to move has no legal move, and next_move raised there.
C11_Witness ==
    /\ ret.op = "next_move" /\ book.enabled
    /\ ret.board_before.stack # <<>>
    /\ legal_moves(ret.board_before) = <<>>
    /\ ret.book_move = None /\ ret.learned_move = None
    /\ ret.raised

\* C12: at depth 0, on a non-terminal position with no usable table entry,
\* the value minimax returns is the quiescence result for that position
\* (quiescence_search with its default budget), not the bare static
\* evaluation.  Stated for the leaves entered with the full window, where the
\* window quiescence would be given is not in question.
C12_LeafIsQuiescence ==
    \A c \in CallSet :
        (c.how = "leaf" /\ c.alpha = -Inf /\ c.beta = Inf)
            => c.score = quiescence_search(At(c.pos), -Inf, Inf, QUIESCENCE_DEPTH).score

\* C13: every non-EXACT entry the search stores is tagged in the sound
\* direction: after a fail high (score >= beta) the entry is tagged BETA, the
\* lower bound, and its score is <= the position's depth-limited minimax
\* value; after a fail low (score <= alpha) it is tagged ALPHA, the upper
\* bound, and its score is >= that value.
C13_BoundTagsSound ==
    \A c \in CallSet :
        (c.depth >= 0 /\ c.how \in {"searched", "cutoff"}) =>
            /\ c.score >= c.beta => c.stored = BETA
            /\ c.score <= c.alpha => c.stored = ALPHA
            /\ c.stored = BETA => c.score <= PlainMinimax(c.depth, At(c.pos), c.is_max)
            /\ c.stored = ALPHA => c.score >= PlainMinimax(c.depth, At(c.pos), c.is_max)

\* C14: minimax stores a searched node as EXACT exactly when the node's best
\* score lies strictly inside the window (alpha, beta) the call was entered
\* with, at maximising and minimising nodes alike.
C14_ExactInsideWindow ==
    \A c \in CallSet :
        (c.depth >= 1 /\ c.how \in {"searched", "cutoff"}) =>
            ((c.stored = EXACT) <=> (c.alpha < c.score /\ c.score < c.beta))

\* whether the player who has just moved into position p (attacker_to_move
\* FALSE) or who is to move there (TRUE) can force checkmate within n plies
RECURSIVE ForcesMate(_, _, _)
ForcesMate(p, n, attacker_to_move) ==
    IF game.status[p] = "checkmate" THEN ~attacker_to_move
    ELSE IF game.status[p] # "play" \/ n = 0 THEN FALSE
    ELSE LET successors == {m.to : m \in SeqToSet(game.moves[p])}
         IN  IF attacker_to_move
             THEN \E q \in successors : ForcesMate(q, n - 1, FALSE)
             ELSE /\ successors # {}
                  /\ \A q \in successors : ForcesMate(q, n - 1, TRUE)

\* the fewest plies, at most n, within which the player who moved into p
\* forces checkmate; -1 when there is no forced mate within n plies
MatePlies(p, n) ==
    IF \E k \in 0..n : ForcesMate(p, k, FALSE)
    THEN CHOOSE k \in 0..n :
             /\ ForcesMate(p, k, FALSE)
             /\ \A j \in 0..(k - 1) : ~ForcesMate(p, j, FALSE)
    ELSE -1

\* the calls minimax_root made for the root move m (line 140)
RootChildCalls(m) ==
    {c \in CallSet : c.board_in = push(ret.board_before, m) /\ c.depth = ret.depth - 1}

\* C15: when two root moves both force checkmate within the search depth, the
\* one that mates in fewer plies has the strictly better value for the mover
\* and the one that mates in more plies is not the move minimax_root returns.
C15_ShorterMatePreferred ==
    (ret.op = "next_move" /\ ret.stage = "search" /\ ~ret.raised) =>
        \A m1, m2 \in SeqToSet(legal_moves(ret.board_before)) :
            (/\ MatePlies(m1.to, ret.depth - 1) >= 0
             /\ MatePlies(m2.to, ret.depth - 1) >= 0
             /\ MatePlies(m1.to, ret.depth - 1) < MatePlies(m2.to, ret.depth - 1))
                => /\ ret.move # m2.id
                   /\ \A c1 \in RootChildCalls(m1), c2 \in RootChildCalls(m2) :
                          IF turn(ret.board_before) = WHITE
                          THEN c1.score > c2.score
                          ELSE c1.score < c2.score

\* the entries of the table after next_move that the search wrote or refreshed:
\* those that are not in the table it started with
TouchedEntries ==
    {e \in SeqToSet(tt.table) : e \notin SeqToSet(ret.tt_before.table)}

\* C16: a search started by next_move advances the table's generation counter
\* once, and every entry it writes or refreshes has a strictly greater age than
\* every entry that was in the table when the search began.
C16_SearchAdvancesGeneration ==
    (ret.op = "next_move" /\ ret.stage = "search" /\ ~ret.raised) =>
        /\ tt.current_age = ret.tt_before.current_age + 1
        /\ \A e \in TouchedEntries :
               \A old \in SeqToSet(ret.tt_before.table) : e.age > old.age

\* whether position p has an entry in table t
Stored(t, p) == IndexOfKey(t.table, zobrist_hash(At(p)), 1) # 0

\* C17: after any sequence of store, lookup, new_search and clear on a table
\* with max_entries >= 1, the table holds at most max_entries entries.
C17_WithinCapacity ==
    tt.max_entries >= 1 => Len(tt.table) <= tt.max_entries

C17_Witness ==
    /\ ret.op = "store"
    /\ Len(ret.tt_before.table) = tt.max_entries
    /\ ~Stored(ret.tt_before, ret.pos)
    /\ Len(tt.table) = tt.max_entries

\* the entries of a table other than the one for key
OtherEntries(table, key) == {e \in SeqToSet(table) : e.key # key}

\* the keys a table holds
KeysOf(table) == {e.key : e \in SeqToSet(table)}

\* C18: a store on a table at capacity removes exactly one entry, whose age is
\* the least of the ages present at that moment, before it writes its own;
\* lookup and new_search remove no entry.
C18_EvictsOneOldest ==
    /\ (ret.op = "store" /\ Len(ret.tt_before.table) >= ret.tt_before.max_entries) =>
           \E i \in 1..Len(ret.tt_before.table) :
               LET rest == RemoveAt(ret.tt_before.table, i)
               IN  /\ \A j \in 1..Len(ret.tt_before.table) :
                          ret.tt_before.table[i].age <= ret.tt_before.table[j].age
                   /\ OtherEntries(tt.table, ret.pos) = OtherEntries(rest, ret.pos)
                   /\ KeysOf(tt.table) = KeysOf(rest) \cup {ret.pos}
                   /\ Len(tt.table) = Cardinality(KeysOf(tt.table))
    /\ ret.op \in {"lookup", "new_search"} =>
           /\ KeysOf(tt.table) = KeysOf(ret.tt_before.table)
           /\ Len(tt.table) = Len(ret.tt_before.table)

C18_Witness ==
    /\ ret.op = "store"
    /\ Len(ret.tt_before.table) = 2
    /\ ret.tt_before.max_entries = 2
    /\ ret.tt_before.table[1].age > ret.tt_before.table[2].age
    /\ KeysOf(tt.table) = {ret.tt_before.table[1].key, ret.pos}

\* C19: a lookup of a stored position adds one to hits, sets that entry's age
\* to the current generation and changes nothing else of it or of any other
\* entry; a lookup of a position not stored adds one to misses and leaves the
\* table as it was; so hits + misses is the number of lookups made since the
\* table was constructed or last cleared.
C19_LookupFrame ==
    /\ (ret.op = "lookup" /\ Stored(ret.tt_before, ret.pos)) =>
           /\ ret.found
           /\ tt.hits = ret.tt_before.hits + 1
           /\ tt.misses = ret.tt_before.misses
           /\ Len(tt.table) = Len(ret.tt_before.table)
           /\ \A i \in 1..Len(tt.table) :
                  tt.table[i] =
                      IF ret.tt_before.table[i].key = zobrist_hash(At(ret.pos))
                      THEN [ret.tt_before.table[i] EXCEPT !.age = ret.tt_before.current_age]
                      ELSE ret.tt_before.table[i]
    /\ (ret.op = "lookup" /\ ~Stored(ret.tt_before, ret.pos)) =>
           /\ ~ret.found
           /\ tt.misses = ret.tt_before.misses + 1
           /\ tt.hits = ret.tt_before.hits
           /\ tt.table = ret.tt_before.table
    /\ tt.hits + tt.misses = ret.lookups

\* a hit that refreshes an entry written in an earlier generation, beside an
\* entry it leaves alone, after a miss has been counted too
C19_Witness ==
    /\ ret.op = "lookup"
    /\ Stored(ret.tt_before, ret.pos)
    /\ Len(ret.tt_before.table) = 2
    /\ \E i \in 1..2 :
           /\ ret.tt_before.table[i].key = zobrist_hash(At(ret.pos))
           /\ ret.tt_before.table[i].age < ret.tt_before.current_age
           /\ tt.table[i].age = tt.current_age
    /\ tt.hits = 1
    /\ tt.misses = 1
    /\ ret.lookups = 2

\* C20: a store for a position whose key is already in the table replaces that
\* entry only: every other entry stays and the number of entries is unchanged,
\* also when the table is at capacity.
C20_OverwriteOnly ==
    (ret.op = "store" /\ Stored(ret.tt_before, ret.pos)) =>
        /\ Len(tt.table) = Len(ret.tt_before.table)
        /\ OtherEntries(tt.table, ret.pos) = OtherEntries(ret.tt_before.table, ret.pos)

\* C21: the list minimax iterates holds each legal move of the position exactly
\* once; when the table entry's best move is among them it comes first and the
\* other moves keep the relative order get_ordered_moves gave them.
C21_TTMoveFirstPermutation ==
    ret.op = "minimax_moves" =>
        /\ Len(ret.moves) = Len(legal_moves(board))
        /\ \A m \in SeqToSet(legal_moves(board)) :
               Cardinality({i \in 1..Len(ret.moves) : ret.moves[i] = m}) = 1
        /\ (ret.tt_entry.found /\ ret.tt_entry.best_move \in LegalIds(board)) =>
               /\ ret.moves[1].id = ret.tt_entry.best_move
               /\ \A i, j \in 2..Len(ret.moves) :
                      i < j => IndexOfMove(get_ordered_moves(board), ret.moves[i].id, 1)
                                   < IndexOfMove(get_ordered_moves(board), ret.moves[j].id, 1)
        /\ ~(ret.tt_entry.found /\ ret.tt_entry.best_move \in LegalIds(board)) =>
               ret.moves = get_ordered_moves(board)

\* the table's move was the last of three in get_ordered_moves' order and
\* was brought to the front
C21_Witness ==
    /\ ret.op = "minimax_moves"
    /\ ret.tt_entry.found
    /\ Len(ret.moves) = 3
    /\ get_ordered_moves(board)[3].id = ret.tt_entry.best_move
    /\ ret.moves[1].id = ret.tt_entry.best_move
    /\ ret.moves[2] = get_ordered_moves(board)[1]
    /\ ret.moves[3] = get_ordered_moves(board)[2]

\* the value minimax_root computed for its root move m: lines 137-140
RootMoveValue(m) ==
    IF can_claim_draw(push(ret.board_before, m)) THEN 0
    ELSE (CHOOSE c \in RootChildCalls(m) : TRUE).score

\* whether value v is at least as good as w for the side to move at the root
RootAtLeast(v, w) ==
    IF turn(ret.board_before) = WHITE THEN v >= w ELSE v <= w

\* C22: the move minimax_root returns has the greatest (White to move) or
\* least (Black to move) of the values of the root moves, and every move
\* after it in the ordered list has a strictly worse value.
C22_RootPicksLastBest ==
    (ret.op = "next_move" /\ ret.stage = "search" /\ ~ret.raised) =>
        \E k \in 1..Len(get_ordered_moves(ret.board_before)) :
            /\ get_ordered_moves(ret.board_before)[k].id = ret.move
            /\ \A i \in 1..Len(get_ordered_moves(ret.board_before)) :
                   /\ RootAtLeast(RootMoveValue(get_ordered_moves(ret.board_before)[k]),
                                  RootMoveValue(get_ordered_moves(ret.board_before)[i]))
                   /\ i > k =>
                          RootMoveValue(get_ordered_moves(ret.board_before)[i])
                              # RootMoveValue(get_ordered_moves(ret.board_before)[k])

\* two root moves tied at the best value (neither a mate score) and the later
\* one returned
C22_Witness ==
    /\ ret.op = "next_move" /\ ret.stage = "search" /\ ~ret.raised
    /\ ret.depth >= 1
    /\ Len(get_ordered_moves(ret.board_before)) = 2
    /\ RootMoveValue(get_ordered_moves(ret.board_before)[1])
           = RootMoveValue(get_ordered_moves(ret.board_before)[2])
    /\ RootMoveValue(get_ordered_moves(ret.board_before)[1]) \in {-100, 0, 100}
    /\ ret.move = get_ordered_moves(ret.board_before)[2].id

RECURSIVE CaptureMinimax(_, _)
RECURSIVE CaptureBest(_, _, _, _, _)

\* the capture-only minimax value of board b with budget d, in the static
\* evaluation's White-positive scale: White takes the greatest and Black the
\* least of standing pat and the values after each capture
CaptureMinimax(b, d) ==
    IF is_checkmate(b) THEN QMateValue(b)
    ELSE IF d = 0 THEN evaluate_board(b)
    ELSE CaptureBest(b, d, legal_moves(b), 1, evaluate_board(b))

CaptureBest(b, d, moves, i, best) ==
    IF i > Len(moves) THEN best
    ELSE IF ~is_capture(b, moves[i]) THEN CaptureBest(b, d, moves, i + 1, best)
    ELSE LET v == CaptureMinimax(push(b, moves[i]), d - 1)
         IN  CaptureBest(b, d, moves, i + 1,
                         IF turn(b) = WHITE THEN Max(best, v) ELSE Min(best, v))

\* C23: with a full window and budget d, quiescence_search returns the
\* capture-only minimax value of the position (White maximising, Black
\* minimising the White-positive static evaluation).
C23_QuiescenceIsCaptureMinimax ==
    ret.op = "quiescence_search" =>
        ret.score = CaptureMinimax(ret.board_before, ret.depth)

\* the number of pieces of the given colour and types on the board
CountPieces(color, types) ==
    Cardinality({square \in SQUARES :
                    /\ game.pieces[square].piece_type \in types
                    /\ game.pieces[square].color = color})

\* C24: check_end_game returns true exactly when neither side has a queen, or
\* every side that has a queen has at most one minor piece of its own.
C24_EndGameRule ==
    ret.op = "check_end_game" =>
        (ret.end_game <=>
            \/ \A color \in {WHITE, BLACK} : CountPieces(color, {"QUEEN"}) = 0
            \/ \A color \in {WHITE, BLACK} :
                   CountPieces(color, {"QUEEN"}) > 0
                       => CountPieces(color, {"KNIGHT", "BISHOP"}) <= 1)

\* the square on the same file whose rank is 7 minus the rank of square
MirrorSquare(square) == ((7 - (square \div 8)) * 8) + (square % 8)

\* C25: for every piece type, both phases and every square, the bonus of a
\* Black piece on rank r, file f is the bonus of a White piece of the same
\* type on rank 7-r, file f.
C25_BlackMirrorsWhite ==
    (ret.op = "evaluate_piece" /\ ret.piece.color = BLACK) =>
        ret.value = evaluate_piece(Piece(ret.piece.piece_type, WHITE),
                                   MirrorSquare(ret.square), ret.end_game)

\* the entries of the book for the board that get_book_move may select
Eligible == valid_entries(book, board, MIN_WEIGHT)

\* the sum of the weights of the first n of the entries whose move is m
RECURSIVE WeightOfMove(_, _, _)
WeightOfMove(entries, n, m) ==
    IF n = 0 THEN 0
    ELSE WeightOfMove(entries, n - 1, m)
             + (IF entries[n].move = m THEN entries[n].weight ELSE 0)

\* C26: get_book_move returns only moves of entries of weight >= min_weight;
\* over the total_weight values of the draw each eligible entry is selected
\* for exactly weight-many values, so a move is returned whenever an entry
\* is eligible.
C26_WeightedChoice ==
    /\ (ret.op = "get_book_move" /\ ret.move # None) =>
           \E i \in 1..Len(book.entries[zobrist_hash(board)]) :
               /\ book.entries[zobrist_hash(board)][i].move = ret.move
               /\ book.entries[zobrist_hash(board)][i].weight >= MIN_WEIGHT
    /\ (book.enabled /\ Eligible # <<>>) =>
           /\ Cardinality(BookDraws(book, board)) = SumWeights(Eligible, Len(Eligible))
           /\ \A m \in {"a", "b", "zz"} :
                  Cardinality({choice \in BookDraws(book, board) :
                                  get_book_move(book, board, choice) = m})
                      = WeightOfMove(Eligible, Len(Eligible), m)
           /\ ret.op = "get_book_move" => ret.move # None

\* the second of two eligible entries, of different moves, was selected, by
\* the last value of the draw
C26_Witness ==
    /\ ret.op = "get_book_move"
    /\ Len(Eligible) = 2
    /\ Eligible[1].move # Eligible[2].move
    /\ Eligible[1].weight = 20 /\ Eligible[2].weight = 10
    /\ ret.choice = 29
    /\ ret.move = Eligible[2].move

\* whether score is finite and no larger in magnitude than a mate score
Bounded(score) == -MATE_SCORE <= score /\ score <= MATE_SCORE

\* C27: in a search of depth >= 1 started by minimax_root, every score a
\* minimax call returns and every score stored in the table is finite with
\* magnitude at most MATE_SCORE.
C27_ScoresBounded ==
    (ret.op = "next_move" /\ ret.stage = "search" /\ ret.depth >= 1) =>
        /\ \A c \in CallSet : Bounded(c.score)
        /\ \A e \in SeqToSet(tt.table) : Bounded(e.score)

\* a search in which a call entered with an infinite window bound was answered
\* from a bound entry of the table, and another returned a mate score
C27_Witness ==
    /\ ret.op = "next_move" /\ ret.stage = "search" /\ ret.depth >= 1
    /\ \E c \in CallSet :
           /\ c.how \in {"tt_alpha", "tt_beta"}
           /\ (c.alpha = -Inf \/ c.beta = Inf)
    /\ \E c \in CallSet : c.how = "checkmate" /\ c.score \in {-MATE_SCORE, MATE_SCORE}
    /\ \E c \in CallSet : c.how = "searched" /\ c.alpha = -Inf /\ c.beta = Inf

\* C28: for every depth >= 0 given to next_move, no minimax call is made more
\* than depth plies below the root position, and no minimax call has a
\* negative depth argument.
C28_DepthBudget ==
    (ret.op = "next_move" /\ ret.stage = "search") =>
        \A c \in CallSet :
            /\ c.depth >= 0
            /\ Len(c.board_in.stack) - Len(ret.board_before.stack) <= ret.depth

\* which side won the game play_game has returned from: the side that gave
\* checkmate, or the side the mercy rule found far ahead; None otherwise
WinnerSide ==
    IF ret.termination = "checkmate"
    THEN (IF board.turn = BLACK THEN "White" ELSE "Black")
    ELSE IF ret.termination = "mercy_rule"
    THEN (IF board.eval > 0 THEN "White" ELSE "Black")
    ELSE None

\* C29: the record play_game returns has result, winner and termination set
\* after at most 150 passes of the loop; winner is "Draw" exactly when result
\* is "1/2-1/2", and result is "1-0" exactly when White won and "0-1" exactly
\* when Black won.
C29_ResultWinnerAgree ==
    (ret.op = "play_game" /\ ret.pc = "returned") =>
        /\ ret.result # None /\ ret.winner # None /\ ret.termination # None
        /\ ret.move_count <= MAX_MOVES
        /\ (ret.winner = "Draw") <=> (ret.result = "1/2-1/2")
        /\ (ret.result = "1-0") <=> (WinnerSide = "White")
        /\ (ret.result = "0-1") <=> (WinnerSide = "Black")

\* C30: in every state of the GUI, ai_thinking implies that the side to move
\* on the board is not the player's and that the game is not over.
C30_EngineMovesOnItsTurn ==
    (ret.op = "gui" /\ ret.ai_thinking) =>
        /\ turn(board) # player_color
        /\ ~is_game_over(board)
        /\ ~ret.game_over

====
